---------------------------- MODULE Spec2Model ----------------------------
(***************************************************************************)
(* A model of UDP-Web-Logger: the storage LogStorage (app/log_storage.py), *)
(* the datagram listener (app/udp_listener.py), the notifier               *)
(* (app/telegram_notifier.py) and, of the web application (app/main.py),   *)
(* the live stream and the shutdown.                                       *)
(*                                                                         *)
(* The program runs on one asyncio event loop.  No coroutine of LogStorage *)
(* suspends while it holds self._lock (_notify contains no await that      *)
(* yields, _write_to_file is synchronous), so the lock is free whenever a  *)
(* task starts and every method runs from its first line to its return as  *)
(* one step of the loop: one action of the model is one whole method call. *)
(* The section "concurrent calls" drops that argument and lets the calls   *)
(* overlap, kept apart by the lock alone.                                  *)
(***************************************************************************)
EXTENDS Integers, Sequences, FiniteSets, TLC

\* ------------------------------------------------------------------ bounds
MaxEntries == 3        \* add_entry calls in one behaviour
MaxDays == 1           \* days the clock advances
MaxDatagrams == 2      \* datagrams received in one behaviour
MaxPosts == 2          \* texts the notifier's worker takes in one behaviour

\* The values the calls and the configuration are given.
Capacities == {0, 1, 2}        \* max_memory_logs
QueueSizes == {0, 1, 2}        \* max_queue_size
Limits == {0, 1, 2}            \* limit
Messages == {<<"a", "\n">>}    \* message
Viewers == {1}                 \* the queues subscribe makes, in order
FanoutViewers == {1, 2}        \* the same, where the fan-out is studied

\* ---------------------------------------------------------------- calendar
\* datetime's proleptic Gregorian calendar, as far as the program uses it:
\* date.toordinal(), strftime("%Y-%m-%d") and strptime(..., "%Y-%m-%d").

IsLeap(y) == (y % 4 = 0) /\ ((y % 100 # 0) \/ (y % 400 = 0))

DaysInMonth(y, m) ==
  IF m = 2 THEN (IF IsLeap(y) THEN 29 ELSE 28)
  ELSE IF m \in {4, 6, 9, 11} THEN 30 ELSE 31

DaysBeforeYear(y) ==
  (y - 1) * 365 + ((y - 1) \div 4) - ((y - 1) \div 100) + ((y - 1) \div 400)

RECURSIVE DaysBeforeMonth(_, _)
DaysBeforeMonth(y, m) ==
  IF m <= 1 THEN 0 ELSE DaysBeforeMonth(y, m - 1) + DaysInMonth(y, m - 1)

\* date(y, m, d).toordinal()
toordinal(date) ==
  DaysBeforeYear(date[1]) + DaysBeforeMonth(date[1], date[2]) + date[3]

\* The fields of a file stem are the integers between its "-" signs; strptime
\* with "%Y-%m-%d" raises ValueError unless there are three and they name a day.
ParsesAsDate(stem) ==
  /\ Len(stem) = 3
  /\ stem[1] \in 1..9999
  /\ stem[2] \in 1..12
  /\ stem[3] \in 1..DaysInMonth(stem[1], stem[2])

\* The first day of the model's clock; the days after it cross 29 February.
StartDate == <<2024, 2, 28>>
StartOrd == toordinal(StartDate)

\* The last day the clock reaches.
LastOrd == StartOrd + MaxDays

\* timestamp.astimezone(timezone.utc).strftime("%Y-%m-%d"): the date with
\* that ordinal, tabulated for the days of the model.
DateTable ==
  [n \in StartOrd..LastOrd |->
     CHOOSE date \in {StartDate[1]} \X {2, 3} \X (1..31) :
       ParsesAsDate(date) /\ toordinal(date) = n]

strftime(timestamp) == DateTable[timestamp]

\* ------------------------------------------------------------------- state
VARIABLES
  now,               \* the UTC clock, datetime.now(timezone.utc), in days
  config,            \* AppConfig: the fields the engine reads
  buffer,            \* LogStorage._buffer, oldest entry first
  listeners,         \* LogStorage._listeners, a list of queues
  queues,            \* every asyncio.Queue subscribe has made: maxsize, items
  current_log_file,  \* LogStorage._current_log_file
  file_handle,       \* LogStorage._file_handle: the path it is open on
  files,             \* the log directory: file name -> lines
  ready,             \* the event loop's tasks created by datagram_received
  last_call,         \* the last call, when it was get_recent or cleanup_files:
                     \* what it returned, the files it listed
  history,           \* every entry appended to the buffer, in order
  cleared,           \* the length of history at the last clear_buffer
  subs,              \* per queue: what its viewer has taken from it, and when
                     \* it was registered and released
  received,          \* the datagrams received, in order
  lock,              \* LogStorage._lock: asyncio.Lock._locked and ._waiters
  disk,              \* whether mkdir, open, write and flush succeed just now
  returned,          \* what the last add_entry call returned or raised
  notifier,          \* the TelegramNotifier: enabled, queue, worker, client
  tasks,             \* the calls of the storage that are in progress
  sessions,          \* the websocket_logs handlers and their clients
  shutdown           \* lifespan: how far its shutdown has come

vars == <<now, config, buffer, listeners, queues, current_log_file, file_handle,
          files, ready, last_call, history, cleared, subs, received, lock, disk,
          returned, notifier, tasks, sessions, shutdown>>

\* The three parts of the file writer, handled together.
writer == <<current_log_file, file_handle, files>>

\* None, for a path; and any call but get_recent and cleanup_files.
NoFile == [stem |-> <<>>, ext |-> ""]
NoResult == [call |-> "", limit |-> -1, items |-> <<>>, listed |-> {}]

\* What the calls of the storage leave alone: the notifier's worker, the
\* handlers of the web application and the shutdown.
aside == <<disk, tasks, sessions, shutdown>>

\* What only add_entry adds to.
forwarded == <<returned, notifier>>

Range(s) == {s[i] : i \in 1..Len(s)}
Min(a, b) == IF a < b THEN a ELSE b

\* The last n elements of s.
LastN(s, n) == SubSeq(s, Len(s) - Min(n, Len(s)) + 1, Len(s))

\* ------------------------------------------------------------ entry model
\* message.rstrip("\n")
RECURSIVE rstrip(_)
rstrip(message) ==
  IF message # <<>> /\ message[Len(message)] = "\n"
  THEN rstrip(SubSeq(message, 1, Len(message) - 1))
  ELSE message

\* timestamp.astimezone(timezone.utc).isoformat().replace("+00:00", "Z")
isoformat(timestamp) == [date |-> strftime(timestamp), zone |-> "Z"]

\* LogEntry.to_dict
to_dict(entry) ==
  [timestamp |-> isoformat(entry.timestamp), message |-> entry.message]

\* ---------------------------------------------------------------- the lock
\* asyncio.Lock(): not locked, nobody waiting.
Unlocked == [locked |-> FALSE, waiters |-> <<>>]

\* Faulty variant: no lock at all.
free_always(l) == TRUE

\* Faulty variant: a caller that finds the lock released takes it ahead of
\* the callers already waiting.
free_barging(l) == ~l.locked

\* Lock.acquire returns at once when the lock is not held and no earlier
\* caller waits for it; a method of the storage that finds it so runs from
\* "async with self._lock" to the end of the block without suspending.
free(l) == ~l.locked /\ l.waiters = <<>>

\* Faulty variant: acquire() and release() around the block, no try/finally.
release_unless_raised(raised) == raised

\* The end of "async with self._lock": _locked after __aexit__, which
\* releases the lock whether the block returned or raised.
__aexit__(raised) == FALSE

\* ------------------------------------------------------------ ring buffer
\* Faulty variant: a deque that never discards.
deque_append_unbounded(deque, entry, maxlen) == Append(deque, entry)

\* deque(maxlen=...).append: a full deque discards its oldest element; a
\* deque of maxlen 0 stays empty.
deque_append(deque, entry, maxlen) ==
  IF maxlen = 0 THEN <<>>
  ELSE IF Len(deque) >= maxlen THEN Append(Tail(deque), entry)
  ELSE Append(deque, entry)

\* ----------------------------------------------------- subscriber queues
\* subscribe(max_queue_size: int = 1000), as websocket_logs calls it
DefaultQueueSize == 1000

\* asyncio.Queue.full: a queue of maxsize <= 0 is never full.
full(queue) == queue.maxsize > 0 /\ Len(queue.items) >= queue.maxsize

\* Faulty variant: the queue refuses one entry early.
put_nowait_lossy(queue, entry) ==
  IF queue.maxsize > 0 /\ Len(queue.items) + 1 >= queue.maxsize THEN queue
  ELSE [queue EXCEPT !.items = Append(@, entry)]

\* Faulty variant: a full queue drops its oldest entry to take the new one.
put_nowait_drop_oldest(queue, entry) ==
  IF full(queue) THEN [queue EXCEPT !.items = Append(Tail(@), entry)]
  ELSE [queue EXCEPT !.items = Append(@, entry)]

\* queue.put_nowait(entry) inside try/except QueueFull: continue
put_nowait(queue, entry) ==
  IF full(queue) THEN queue
  ELSE [queue EXCEPT !.items = Append(@, entry)]

\* Faulty variant: the loop over the listeners ends at the first full queue.
_notify_break(entry) ==
  [q \in DOMAIN queues |->
     IF /\ q \in Range(listeners)
        /\ \A i \in 1..Len(listeners) :
              full(queues[listeners[i]]) =>
                 \E j \in 1..(i - 1) : listeners[j] = q
     THEN put_nowait(queues[q], entry) ELSE queues[q]]

\* LogStorage._notify: the queues after the entry was offered to every
\* registered one.
_notify(entry) ==
  [q \in DOMAIN queues |->
     IF q \in Range(listeners) THEN put_nowait(queues[q], entry) ELSE queues[q]]

\* ------------------------------------------------------------ file writer
\* LogStorage._get_log_file_path
_get_log_file_path(timestamp) == [stem |-> strftime(timestamp), ext |-> "log"]

\* f"[{timestamp}] {entry.message}\n"
line_of(entry) == <<isoformat(entry.timestamp), entry.message>>

\* A writer state w is the marker, the handle and the directory, with the
\* state of the disk and whether an OSError was raised.

\* LogStorage._rotate_log_file, on a writer state w: the old handle is closed
\* and the marker set before mkdir and open, which raise on a failing disk.
_rotate_log_file(w, new_path) ==
  IF w.disk = "ok"
  THEN [w EXCEPT !.current_log_file = new_path,
                 !.file_handle = new_path,
                 !.files = IF new_path \in DOMAIN w.files THEN w.files
                           ELSE w.files @@ (new_path :> <<>>)]
  ELSE [w EXCEPT !.current_log_file = new_path,
                 !.file_handle = NoFile,
                 !.raised = TRUE]

\* file_handle.write(...); flush(): a handle whose file was unlinked writes
\* to no name of the directory; on a failing disk the flush raises.
write_line(w, line) ==
  IF w.disk # "ok" THEN [w EXCEPT !.raised = TRUE]
  ELSE IF w.file_handle \in DOMAIN w.files
  THEN [w EXCEPT !.files[w.file_handle] = Append(@, line)]
  ELSE w

\* Faulty variant: the writer rotates only when it holds no handle.
_write_to_file_no_rotate(w, entry) ==
  LET log_path == _get_log_file_path(entry.timestamp)
      r == IF w.file_handle = NoFile THEN _rotate_log_file(w, log_path) ELSE w
  IN  write_line(r, line_of(entry))

\* LogStorage._write_to_file, on a writer state w
_write_to_file(w, entry) ==
  LET log_path == _get_log_file_path(entry.timestamp)
      r == IF w.current_log_file # log_path THEN _rotate_log_file(w, log_path) ELSE w
  IN  IF r.raised THEN r
      ELSE IF r.file_handle # NoFile THEN write_line(r, line_of(entry)) ELSE r

\* ------------------------------------------------------------ the notifier
\* asyncio.Queue(maxsize=100) of TelegramNotifier
TelegramQueueSize == 100

\* LogStorage(config): telegram_notifier = None
NoNotifier ==
  [attached |-> FALSE, enabled |-> FALSE, api |-> "ok",
   queue |-> [maxsize |-> TelegramQueueSize, items |-> <<>>],
   worker |-> "none", client |-> "none", posts |-> <<>>]

\* TelegramNotifier(config) after start(): a notifier that is not enabled
\* has no worker and no client.  api is the state of the Bot API, which the
\* worker meets when it posts.
TelegramNotifier(enabled, api) ==
  [attached |-> TRUE, enabled |-> enabled, api |-> api,
   queue |-> [maxsize |-> TelegramQueueSize, items |-> <<>>],
   worker |-> IF enabled THEN "running" ELSE "none",
   client |-> IF enabled THEN "open" ELSE "none", posts |-> <<>>]

\* f"<code>[{timestamp.strftime('%d/%m %H:%M:%S')}]</code> {entry.message}"
telegram_message(entry) ==
  [stamp |-> <<strftime(entry.timestamp)[3], strftime(entry.timestamp)[2]>>,
   message |-> entry.message]

\* Faulty variant: put_nowait outside a try; QueueFull reaches the caller.
send_message_unguarded(n, message) ==
  IF ~n.enabled THEN [notifier |-> n, raised |-> FALSE]
  ELSE IF full(n.queue) THEN [notifier |-> n, raised |-> TRUE]
  ELSE [notifier |-> [n EXCEPT !.queue = put_nowait(@, message)], raised |-> FALSE]

\* TelegramNotifier.send_message: the notifier afterwards, and whether the
\* call raised.
send_message(n, message) ==
  IF ~n.enabled THEN [notifier |-> n, raised |-> FALSE]
  ELSE [notifier |-> [n EXCEPT !.queue = put_nowait(@, message)], raised |-> FALSE]

\* TelegramNotifier._worker, one round: message = await self._queue.get();
\* await self._send_to_telegram(message), which posts when there is a client
\* and logs the error of a failing post.  The texts of the model are shorter
\* than the 4000 characters beyond which the post is truncated.
_worker ==
  /\ notifier.worker = "running"
  /\ notifier.queue.items # <<>>
  /\ notifier' = [notifier EXCEPT
                    !.queue.items = Tail(@),
                    !.posts = Append(@, [text |-> Head(notifier.queue.items),
                                         delivered |-> notifier.client = "open"
                                                       /\ notifier.api = "ok"])]
  /\ UNCHANGED <<now, config, buffer, listeners, queues, writer, ready, last_call,
                 history, cleared, subs, received, lock, returned, aside>>

\* ------------------------------------------------------------ the engine
\* What add_entry returns or raises.
NoEntry == [id |-> 0, timestamp |-> 0, message |-> <<>>]
NoReturn == [entry |-> NoEntry, raised |-> ""]

\* What every other call leaves behind as the last call.
NoRecent == last_call' = NoResult

\* LogStorage.add_entry(message); the task list is the caller's.  An OSError
\* of the file writer leaves the block and the call; the notifier is handed
\* the entry after the block.
add_entry(message) ==
  LET entry == [id |-> Len(history) + 1, timestamp |-> now, message |-> rstrip(message)]
      w == [current_log_file |-> current_log_file, file_handle |-> file_handle,
            files |-> files, disk |-> disk, raised |-> FALSE]
      w2 == IF config.write_to_file THEN _write_to_file(w, entry) ELSE w
      sent == IF w2.raised \/ ~notifier.attached
              THEN [notifier |-> notifier, raised |-> FALSE]
              ELSE send_message(notifier, telegram_message(entry))
  IN  /\ free(lock)
      /\ lock' = [lock EXCEPT !.locked = __aexit__(w2.raised)]
      /\ notifier' = sent.notifier
      /\ returned' = IF w2.raised THEN [entry |-> NoEntry, raised |-> "OSError"]
                     ELSE IF sent.raised THEN [entry |-> NoEntry, raised |-> "QueueFull"]
                     ELSE [entry |-> entry, raised |-> ""]
      /\ buffer' = deque_append(buffer, entry, config.max_memory_logs)
      /\ queues' = _notify(entry)
      /\ current_log_file' = w2.current_log_file
      /\ file_handle' = w2.file_handle
      /\ files' = w2.files
      /\ history' = Append(history, entry)
      /\ subs' = [q \in DOMAIN subs |->
                    IF q \in Range(listeners) /\ full(queues[q])
                    THEN [subs[q] EXCEPT !.missed = TRUE] ELSE subs[q]]
      /\ NoRecent
      /\ UNCHANGED <<now, config, listeners, cleared, received, aside>>

\* LogStorage.subscribe(max_queue_size); the sessions are the caller's.
subscribe(max_queue_size) ==
  LET queue == Len(queues) + 1
  IN  /\ free(lock)
      /\ queues' = Append(queues, [maxsize |-> max_queue_size, items |-> <<>>])
      /\ listeners' = Append(listeners, queue)
      /\ subs' = Append(subs, [since |-> Len(history), until |-> -1,
                               taken |-> <<>>, missed |-> FALSE])
      /\ NoRecent
      /\ UNCHANGED <<now, config, buffer, writer, ready, history, cleared, received>>
      /\ UNCHANGED <<lock, forwarded, disk, tasks, shutdown>>

\* list.remove: the list without the first occurrence of x
RECURSIVE list_remove(_, _)
list_remove(list, x) ==
  IF list = <<>> THEN <<>>
  ELSE IF Head(list) = x THEN Tail(list)
  ELSE <<Head(list)>> \o list_remove(Tail(list), x)

\* LogStorage.unsubscribe(queue)
unsubscribe(queue) ==
  /\ free(lock)
  /\ listeners' = IF queue \in Range(listeners) THEN list_remove(listeners, queue)
                  ELSE listeners
  /\ subs' = IF queue \in Range(listeners)
             THEN [subs EXCEPT ![queue].until = Len(history)] ELSE subs
  /\ NoRecent
  /\ UNCHANGED <<now, config, buffer, queues, writer, ready, history, cleared, received>>
  /\ UNCHANGED <<lock, forwarded, aside>>

\* list(self._buffer)[-limit:]: Python reads -0 as 0, the start of the list,
\* and a negative limit as an index from the start.
slice_last(list, limit) ==
  IF limit > 0 THEN LastN(list, limit)
  ELSE SubSeq(list, Min(-limit, Len(list)) + 1, Len(list))

\* LogStorage.get_recent(limit)
get_recent(limit) ==
  LET items == slice_last(buffer, limit)
  IN  /\ free(lock)
      /\ last_call' = [call |-> "get_recent", limit |-> limit,
                        items |-> [i \in 1..Len(items) |-> to_dict(items[i])],
                        listed |-> {}]
      /\ UNCHANGED <<now, config, buffer, listeners, queues, writer, ready, history,
                     cleared, subs, received>>
      /\ UNCHANGED <<lock, forwarded, aside>>

\* Faulty variant: the clear empties the subscriber queues too.
clear_buffer_all ==
  /\ free(lock)
  /\ buffer' = <<>>
  /\ queues' = [q \in DOMAIN queues |-> [queues[q] EXCEPT !.items = <<>>]]
  /\ cleared' = Len(history)
  /\ last_call' = NoResult
  /\ UNCHANGED <<now, config, listeners, writer, ready, history, subs, received>>
  /\ UNCHANGED <<lock, forwarded, aside>>

\* LogStorage.clear_buffer
clear_buffer ==
  /\ free(lock)
  /\ buffer' = <<>>
  /\ cleared' = Len(history)
  /\ NoRecent
  /\ UNCHANGED <<now, config, listeners, queues, writer, ready, history, subs, received>>
  /\ UNCHANGED <<lock, forwarded, aside>>

\* LogStorage.close
close ==
  /\ free(lock)
  /\ file_handle' = NoFile
  /\ NoRecent
  /\ UNCHANGED <<now, config, buffer, listeners, queues, current_log_file, files, ready,
                 history, cleared, subs, received>>
  /\ UNCHANGED <<lock, forwarded, aside>>

\* websocket_logs: entry = await queue.get(), by the viewer that owns the queue
queue_get(queue) ==
  /\ queues[queue].items # <<>>
  /\ queues' = [queues EXCEPT ![queue].items = Tail(@)]
  /\ subs' = [subs EXCEPT ![queue].taken = Append(@, Head(queues[queue].items))]
  /\ NoRecent
  /\ UNCHANGED <<now, config, buffer, listeners, writer, ready, history, cleared, received>>
  /\ UNCHANGED <<lock, forwarded, aside>>

\* The clock passes midnight UTC.
Tick ==
  /\ now < StartOrd + MaxDays
  /\ now' = now + 1
  /\ NoRecent
  /\ UNCHANGED <<config, buffer, listeners, queues, writer, ready, history, cleared,
                 subs, received>>
  /\ UNCHANGED <<lock, forwarded, aside>>

\* ------------------------------------------------------ concurrent calls
\* The same methods, for calls that overlap.  A call is a task of the loop:
\* the method, where it stands, the entry it made or the limit it was given,
\* and, for a reader, what it found.  "await self._notify(entry)" is taken as
\* a place where the loop may run other tasks, before and after _notify, so
\* that what keeps the calls apart is the lock and nothing else.  A reader
\* notes the entries it sees in the buffer whose add_entry is still inside
\* its block (unsettled).
Task(op, pc, entry, limit) ==
  [op |-> op, pc |-> pc, entry |-> entry, limit |-> limit, result |-> <<>>,
   unsettled |-> {}, waited |-> pc = "waiting"]

\* The tasks that are inside "async with self._lock".
Inside == {t \in DOMAIN tasks : tasks[t].pc \in {"notify", "write"}}

Unsettled == {tasks[t].entry : t \in Inside} \cap Range(buffer)

\* self._buffer.append(entry), the first statement of add_entry's block
append_of(t, entry) ==
  /\ buffer' = deque_append(buffer, entry, config.max_memory_logs)
  /\ history' = Append(history, entry)

\* Faulty variant: add_entry without "async with self._lock".
call_add_entry_unlocked(message) ==
  LET t == Len(tasks) + 1
      entry == [id |-> t, timestamp |-> now, message |-> rstrip(message)]
  IN  /\ tasks' = Append(tasks, Task("add_entry", "notify", entry, -1))
      /\ append_of(t, entry)
      /\ NoRecent
      /\ UNCHANGED <<now, config, listeners, queues, writer, ready, cleared, subs,
                     received, lock, forwarded, disk, sessions, shutdown>>

\* add_entry(message) is called: the entry takes its timestamp, then the
\* call takes the lock and appends, or joins the callers waiting for the lock.
call_add_entry(message) ==
  LET t == Len(tasks) + 1
      entry == [id |-> t, timestamp |-> now, message |-> rstrip(message)]
  IN  /\ NoRecent
      /\ UNCHANGED <<now, config, listeners, queues, writer, ready, cleared, subs,
                     received, forwarded, disk, sessions, shutdown>>
      /\ IF free(lock)
         THEN /\ lock' = [lock EXCEPT !.locked = TRUE]
              /\ tasks' = Append(tasks, Task("add_entry", "notify", entry, -1))
              /\ append_of(t, entry)
         ELSE /\ lock' = [lock EXCEPT !.waiters = Append(@, t)]
              /\ tasks' = Append(tasks, Task("add_entry", "waiting", entry, -1))
              /\ UNCHANGED <<buffer, history>>

\* await self._notify(entry)
add_entry_notify(t) ==
  /\ tasks[t].pc = "notify"
  /\ queues' = _notify(tasks[t].entry)
  /\ subs' = [q \in DOMAIN subs |->
                IF q \in Range(listeners) /\ full(queues[q])
                THEN [subs[q] EXCEPT !.missed = TRUE] ELSE subs[q]]
  /\ tasks' = [tasks EXCEPT ![t].pc = "write"]
  /\ NoRecent
  /\ UNCHANGED <<now, config, buffer, listeners, writer, ready, history, cleared,
                 received, lock, forwarded, disk, sessions, shutdown>>

\* if self._config.write_to_file: self._write_to_file(entry); the end of the
\* block; return entry
add_entry_write(t) ==
  LET entry == tasks[t].entry
      w == [current_log_file |-> current_log_file, file_handle |-> file_handle,
            files |-> files, disk |-> disk, raised |-> FALSE]
      w2 == IF config.write_to_file THEN _write_to_file(w, entry) ELSE w
  IN  /\ tasks[t].pc = "write"
      /\ current_log_file' = w2.current_log_file
      /\ file_handle' = w2.file_handle
      /\ files' = w2.files
      /\ lock' = [lock EXCEPT !.locked = __aexit__(w2.raised)]
      /\ returned' = IF w2.raised THEN [entry |-> NoEntry, raised |-> "OSError"]
                     ELSE [entry |-> entry, raised |-> ""]
      /\ tasks' = [tasks EXCEPT ![t].pc = "done"]
      /\ NoRecent
      /\ UNCHANGED <<now, config, buffer, listeners, queues, ready, history, cleared,
                     subs, received, notifier, disk, sessions, shutdown>>

\* The block of get_recent: return [entry.to_dict() for entry in
\* list(self._buffer)[-limit:]]; the task keeps the entries themselves.
read_of(t, limit) ==
  [Task("get_recent", "done", NoEntry, limit) EXCEPT
     !.result = slice_last(buffer, limit), !.unsettled = Unsettled]

\* get_recent(limit) is called.
call_get_recent(limit) ==
  LET t == Len(tasks) + 1
  IN  /\ IF free(lock)
         THEN /\ tasks' = Append(tasks, read_of(t, limit))
              /\ UNCHANGED lock
         ELSE /\ tasks' = Append(tasks, Task("get_recent", "waiting", NoEntry, limit))
              /\ lock' = [lock EXCEPT !.waiters = Append(@, t)]
      /\ NoRecent
      /\ UNCHANGED <<now, config, buffer, listeners, queues, writer, ready, history,
                     cleared, subs, received, forwarded, disk, sessions, shutdown>>

\* The block of subscribe: the queue is made and registered.
register_of(max_queue_size) ==
  /\ queues' = Append(queues, [maxsize |-> max_queue_size, items |-> <<>>])
  /\ listeners' = Append(listeners, Len(queues) + 1)
  /\ subs' = Append(subs, [since |-> Len(history), until |-> -1,
                           taken |-> <<>>, missed |-> FALSE])

\* subscribe() is called.
call_subscribe ==
  LET t == Len(tasks) + 1
  IN  /\ IF free(lock)
         THEN /\ tasks' = Append(tasks, [Task("subscribe", "done", NoEntry, -1) EXCEPT
                                           !.unsettled = Unsettled])
              /\ register_of(DefaultQueueSize)
              /\ UNCHANGED lock
         ELSE /\ tasks' = Append(tasks, Task("subscribe", "waiting", NoEntry, -1))
              /\ lock' = [lock EXCEPT !.waiters = Append(@, t)]
              /\ UNCHANGED <<queues, listeners, subs>>
      /\ NoRecent
      /\ UNCHANGED <<now, config, buffer, writer, ready, history, cleared, received,
                     forwarded, disk, sessions, shutdown>>

\* Lock.release wakes the caller that has waited longest, and only that one
\* takes the lock: its acquire returns and its block begins.
wake(t) ==
  /\ ~lock.locked
  /\ lock.waiters # <<>>
  /\ t = Head(lock.waiters)
  /\ NoRecent
  /\ UNCHANGED <<now, config, writer, ready, cleared, received, forwarded, disk,
                 sessions, shutdown>>
  /\ CASE tasks[t].op = "add_entry" ->
            /\ lock' = [locked |-> TRUE, waiters |-> Tail(lock.waiters)]
            /\ tasks' = [tasks EXCEPT ![t].pc = "notify"]
            /\ append_of(t, tasks[t].entry)
            /\ UNCHANGED <<queues, listeners, subs>>
       [] tasks[t].op = "get_recent" ->
            /\ lock' = [locked |-> FALSE, waiters |-> Tail(lock.waiters)]
            /\ tasks' = [tasks EXCEPT ![t] = [read_of(t, tasks[t].limit) EXCEPT
                                                !.waited = TRUE]]
            /\ UNCHANGED <<buffer, history, queues, listeners, subs>>
       [] tasks[t].op = "subscribe" ->
            /\ lock' = [locked |-> FALSE, waiters |-> Tail(lock.waiters)]
            /\ tasks' = [tasks EXCEPT ![t].pc = "done", ![t].unsettled = Unsettled]
            /\ register_of(DefaultQueueSize)
            /\ UNCHANGED <<buffer, history>>

\* ------------------------------------------------------ web application
\* A session is one call of websocket_logs: the token of the request, how far
\* the handler has come, whether the client is still there, and the queue.

\* websocket_logs, to its first suspension: a request whose token is not the
\* configured one is closed with code 4401 and the handler returns; any other
\* is accepted.  None and "" are both false to Python's "and".
websocket_logs(token) ==
  LET refused == config.websocket_token # "" /\ token # config.websocket_token
  IN  /\ sessions' = Append(sessions,
                            [token |-> token,
                             state |-> IF refused THEN "refused" ELSE "accepted",
                             client |-> IF refused THEN "gone" ELSE "connected",
                             queue |-> 0])
      /\ NoRecent
      /\ UNCHANGED <<now, config, buffer, listeners, queues, writer, ready, history,
                     cleared, subs, received, lock, forwarded, disk, tasks, shutdown>>

\* websocket_logs after accept(): queue = await storage.subscribe()
ws_subscribe(s) ==
  /\ sessions[s].state = "accepted"
  /\ subscribe(DefaultQueueSize)
  /\ sessions' = [sessions EXCEPT ![s].state = "streaming", ![s].queue = Len(queues) + 1]

\* websocket_logs, one round of its loop: entry = await queue.get(), which
\* returns when the queue holds an entry; await websocket.send_json(...),
\* which raises when the client has gone; then the handler's finally:
\* await storage.unsubscribe(queue).  The handler never reads from the
\* socket, so a send is the only place where it meets a client that has gone.
ws_stream(s) ==
  LET queue == sessions[s].queue
      entry == Head(queues[queue].items)
      sent == sessions[s].client = "connected"
  IN  /\ sessions[s].state = "streaming"
      /\ queues[queue].items # <<>>
      /\ sent \/ free(lock)
      /\ queues' = [queues EXCEPT ![queue].items = Tail(@)]
      /\ subs' = IF sent THEN [subs EXCEPT ![queue].taken = Append(@, entry)]
                 ELSE [subs EXCEPT ![queue].until = Len(history)]
      /\ listeners' = IF sent THEN listeners ELSE list_remove(listeners, queue)
      /\ sessions' = IF sent THEN sessions ELSE [sessions EXCEPT ![s].state = "ended"]
      /\ NoRecent
      /\ UNCHANGED <<now, config, buffer, writer, ready, history, cleared, received,
                     lock, forwarded, disk, tasks, shutdown>>

\* The client closes the connection, or is lost.
ws_disconnect(s) ==
  /\ sessions[s].state \in {"accepted", "streaming"}
  /\ sessions[s].client = "connected"
  /\ sessions' = [sessions EXCEPT ![s].client = "gone"]
  /\ NoRecent
  /\ UNCHANGED <<now, config, buffer, listeners, queues, writer, ready, history,
                 cleared, subs, received, lock, forwarded, disk, tasks, shutdown>>

\* ------------------------------------------------------ retention sweep
\* for file in self._log_dir.glob("*.log"): strptime(file.stem, "%Y-%m-%d")
\* succeeds and the date is before the cutoff.
\* Faulty variant: a file dated exactly at the cutoff is deleted too.
expired_inclusive(name, cutoff) ==
  /\ name.ext = "log"
  /\ ParsesAsDate(name.stem)
  /\ toordinal(name.stem) <= cutoff

expired(name, cutoff) ==
  /\ name.ext = "log"
  /\ ParsesAsDate(name.stem)
  /\ toordinal(name.stem) < cutoff

\* The function f without the arguments in gone.
without(f, gone) == [x \in (DOMAIN f) \ gone |-> f[x]]

\* LogStorage.cleanup_files
cleanup_files ==
  LET cutoff == now - config.keep_days
      gone == IF ~config.write_to_file \/ config.keep_days <= 0 THEN {}
              ELSE {name \in DOMAIN files : expired(name, cutoff)}
  IN  /\ files' = without(files, gone)
      /\ last_call' = [call |-> "cleanup_files", limit |-> -1, items |-> <<>>,
                        listed |-> DOMAIN files]
      /\ UNCHANGED <<now, config, buffer, listeners, queues, current_log_file,
                     file_handle, ready, history, cleared, subs, received>>
      /\ UNCHANGED <<lock, forwarded, aside>>

\* ------------------------------------------------------ datagram listener
\* data.decode("utf-8", errors="replace"): a byte that is no UTF-8 becomes
\* U+FFFD.
decode(data) ==
  [i \in 1..Len(data) |-> IF data[i] = "0xFF" THEN "U+FFFD" ELSE data[i]]

\* The line boundaries of str.splitlines among the characters of the model.
LineBreaks == {"\n", "\r"}

\* str.splitlines(): "\r\n" is one boundary; a boundary at the end of the
\* text starts no further line.
RECURSIVE splitlines(_)
splitlines(text) ==
  IF text = <<>> THEN <<>>
  ELSE LET breaks == {i \in 1..Len(text) : text[i] \in LineBreaks}
       IN  IF breaks = {} THEN <<text>>
           ELSE LET i == CHOOSE b \in breaks : \A c \in breaks : b <= c
                    end == IF text[i] = "\r" /\ i < Len(text) /\ text[i + 1] = "\n"
                           THEN i + 1 ELSE i
                IN  <<SubSeq(text, 1, i - 1)>> \o splitlines(SubSeq(text, end + 1, Len(text)))

\* for line in lines: if not line: continue; create_task(add_entry(line))
RECURSIVE tasks_of(_)
tasks_of(text_lines) ==
  IF text_lines = <<>> THEN <<>>
  ELSE (IF Head(text_lines) = <<>> THEN <<>> ELSE <<Head(text_lines)>>)
       \o tasks_of(Tail(text_lines))

\* Faulty variant: the allow-list test forgets that an empty list allows everyone.
datagram_received_strict(data, host) ==
  LET message == decode(data)
      split == IF splitlines(message) # <<>> THEN splitlines(message) ELSE <<message>>
  IN  /\ received' = Append(received, [data |-> data, host |-> host])
      /\ ready' = IF host \notin Range(config.udp_whitelist) THEN ready
                  ELSE ready \o tasks_of(split)
      /\ NoRecent
      /\ UNCHANGED <<now, config, buffer, listeners, queues, writer, history, cleared,
                     subs>>
      /\ UNCHANGED <<lock, forwarded, aside>>

\* UDPServerProtocol.datagram_received(data, (host, port))
datagram_received(data, host) ==
  LET message == decode(data)
      split == IF splitlines(message) # <<>> THEN splitlines(message) ELSE <<message>>
  IN  /\ received' = Append(received, [data |-> data, host |-> host])
      /\ ready' = IF config.udp_whitelist # <<>> /\ host \notin Range(config.udp_whitelist)
                  THEN ready
                  ELSE ready \o tasks_of(split)
      /\ NoRecent
      /\ UNCHANGED <<now, config, buffer, listeners, queues, writer, history, cleared,
                     subs>>
      /\ UNCHANGED <<lock, forwarded, aside>>

\* The event loop runs the tasks in the order create_task made them; a task
\* is one add_entry call.
run_task ==
  /\ ready # <<>>
  /\ add_entry(Head(ready))
  /\ ready' = Tail(ready)

\* -------------------------------------------------------------- lifespan
\* lifespan after start-up: the listener's transport is open and the sweeper
\* task exists when keep_days > 0.
Serving(keep_days) ==
  [pc |-> "yield", transport |-> "open",
   sweeper |-> IF keep_days > 0 THEN "running" ELSE "none", log |-> <<>>]

\* The finally block of lifespan works on x: the shutdown record with the
\* notifier's worker and client and the storage's file handle.  Each operator
\* below runs from one statement to the next await that suspends; log keeps
\* the order in which the parts were stopped.

\* await storage.close(); await asyncio.sleep(0)
storage_close(x) ==
  [x EXCEPT !.handle = NoFile, !.log = Append(@, "file"), !.pc = "sleep"]

\* TelegramNotifier.stop, second half: if self._client: await aclose()
client_aclose(x) ==
  IF x.client = "open"
  THEN [x EXCEPT !.client = "none", !.log = Append(@, "client"), !.pc = "aclose"]
  ELSE storage_close(x)

\* TelegramNotifier.stop, first half: if self._worker_task: cancel, await
worker_cancel(x) ==
  IF x.worker = "running"
  THEN [x EXCEPT !.worker = "cancelled", !.log = Append(@, "forwarder"),
                 !.pc = "await worker"]
  ELSE client_aclose(x)

\* transport.close(); await telegram_notifier.stop()
transport_close(x) ==
  worker_cancel([x EXCEPT !.transport = "closed", !.log = Append(@, "listener")])

\* if cleanup_task: cleanup_task.cancel(); await cleanup_task
cleanup_cancel(x) ==
  IF x.sweeper = "running"
  THEN [x EXCEPT !.sweeper = "cancelled", !.log = Append(@, "sweeper"),
                 !.pc = "await sweeper"]
  ELSE transport_close(x)

\* lifespan's finally block, from where it stands to its next suspension.  A
\* task the loop was given before the block suspended runs before the block
\* resumes; while the sweeper is awaited the listener is still open, and the
\* tasks of a datagram that arrives then are queued behind the resumption.
lifespan_finally ==
  LET x == [pc |-> shutdown.pc, transport |-> shutdown.transport,
            sweeper |-> shutdown.sweeper, log |-> shutdown.log,
            worker |-> notifier.worker, client |-> notifier.client,
            handle |-> file_handle]
      y == CASE x.pc = "yield" -> cleanup_cancel(x)
             [] x.pc = "await sweeper" -> transport_close(x)
             [] x.pc = "await worker" -> client_aclose(x)
             [] x.pc = "aclose" -> storage_close(x)
             [] x.pc = "sleep" -> [x EXCEPT !.pc = "stopped"]
  IN  /\ shutdown.pc \in {"yield", "await sweeper", "await worker", "aclose", "sleep"}
      /\ shutdown.pc \in {"await worker", "aclose", "sleep"} => ready = <<>>
      /\ free(lock)
      /\ shutdown' = [pc |-> y.pc, transport |-> y.transport, sweeper |-> y.sweeper,
                      log |-> y.log]
      /\ notifier' = [notifier EXCEPT !.worker = y.worker, !.client = y.client]
      /\ file_handle' = y.handle
      /\ NoRecent
      /\ UNCHANGED <<now, config, buffer, listeners, queues, current_log_file, files,
                     ready, history, cleared, subs, received, lock, returned, disk,
                     tasks, sessions>>

\* --------------------------------------------------------- specification
\* No lifespan: the storage alone, as a test or another program builds it.
NotStarted == [pc |-> "none", transport |-> "none", sweeper |-> "none", log |-> <<>>]

\* LogStorage.__init__ with an empty log directory.
Constructed ==
  /\ now = StartOrd
  /\ buffer = <<>>
  /\ listeners = <<>>
  /\ queues = <<>>
  /\ current_log_file = NoFile
  /\ file_handle = NoFile
  /\ files = <<>>
  /\ ready = <<>>
  /\ last_call = NoResult
  /\ history = <<>>
  /\ cleared = 0
  /\ subs = <<>>
  /\ received = <<>>
  /\ lock = Unlocked
  /\ disk = "ok"
  /\ returned = NoReturn
  /\ tasks = <<>>
  /\ sessions = <<>>

\* LogStorage(config) on its own: no notifier, no lifespan.
Detached ==
  /\ notifier = NoNotifier
  /\ shutdown = NotStarted

Init ==
  /\ Constructed
  /\ Detached
  /\ config \in [max_memory_logs : Capacities, write_to_file : BOOLEAN,
                 keep_days : {3}, udp_whitelist : {<<>>}, websocket_token : {""}]

AddEntry ==
  /\ Len(history) < MaxEntries
  /\ \E message \in Messages : add_entry(message) /\ UNCHANGED ready
Subscribe ==
  /\ Len(queues) + 1 \in Viewers
  /\ \E max_queue_size \in QueueSizes : subscribe(max_queue_size) /\ UNCHANGED sessions
Unsubscribe == \E queue \in DOMAIN queues : unsubscribe(queue)
QueueGet == \E queue \in DOMAIN queues : queue_get(queue)
GetRecent == \E limit \in Limits : get_recent(limit)
ClearBuffer == clear_buffer
Close == close

Next ==
  \/ AddEntry
  \/ Subscribe
  \/ Unsubscribe
  \/ QueueGet
  \/ GetRecent
  \/ ClearBuffer
  \/ Close
  \/ Tick

Spec == Init /\ [][Next]_vars

\* The fan-out to several viewers: the calls that read or change the registry
\* and the queues, on a storage that keeps one entry and writes no file.
InitFanout ==
  /\ Constructed
  /\ Detached
  /\ config = [max_memory_logs |-> 1, write_to_file |-> FALSE, keep_days |-> 3,
               udp_whitelist |-> <<>>, websocket_token |-> ""]

FanoutSubscribe ==
  /\ Len(queues) + 1 \in FanoutViewers
  /\ \E max_queue_size \in QueueSizes : subscribe(max_queue_size) /\ UNCHANGED sessions

NextFanout ==
  \/ AddEntry
  \/ FanoutSubscribe
  \/ Unsubscribe
  \/ QueueGet

SpecFanout == InitFanout /\ [][NextFanout]_vars

\* The retention sweep, over the log directories an earlier run may have
\* left: old files, files whose names are no dates, files that are no logs.
LeftNames ==
  {[stem |-> <<2024, 2, 24>>, ext |-> "log"],
   [stem |-> <<2024, 2, 25>>, ext |-> "log"],
   [stem |-> <<2024, 2, 26>>, ext |-> "log"],
   [stem |-> <<2024, 2, 28>>, ext |-> "log"],
   [stem |-> <<2024, 2, 30>>, ext |-> "log"],
   [stem |-> <<2023, 2, 29>>, ext |-> "log"],
   [stem |-> <<2024, 2>>, ext |-> "log"],
   [stem |-> <<2024, 2, 24>>, ext |-> "txt"]}

KeepDays == {-1, 0, 1, 3}      \* keep_days

InitSweep ==
  /\ now = StartOrd
  /\ buffer = <<>>
  /\ listeners = <<>>
  /\ queues = <<>>
  /\ current_log_file = NoFile
  /\ file_handle = NoFile
  /\ \E names \in SUBSET LeftNames : files = [name \in names |-> <<>>]
  /\ ready = <<>>
  /\ last_call = NoResult
  /\ history = <<>>
  /\ cleared = 0
  /\ subs = <<>>
  /\ received = <<>>
  /\ lock = Unlocked
  /\ disk = "ok"
  /\ returned = NoReturn
  /\ tasks = <<>>
  /\ sessions = <<>>
  /\ Detached
  /\ config \in [max_memory_logs : {1}, write_to_file : BOOLEAN,
                 keep_days : KeepDays, udp_whitelist : {<<>>}, websocket_token : {""}]

CleanupFiles == cleanup_files

NextSweep ==
  \/ CleanupFiles
  \/ AddEntry
  \/ Tick

SpecSweep == InitSweep /\ [][NextSweep]_vars

\* The datagram listener in front of the storage.
Hosts == {"10.0.0.1", "10.0.0.2"}
Whitelists == {<<>>, <<"10.0.0.1">>}      \* udp_whitelist

\* The payloads: every byte string of up to two bytes, and some longer ones.
Bytes == {"a", "\n", "\r"}
Datagrams ==
  {<<>>}
  \cup {<<x>> : x \in Bytes}
  \cup {<<x, y>> : x \in Bytes, y \in Bytes}
  \cup {<<"a", "\n", "b", "\n", "\n", "c">>,
        <<"a", "\r", "\n", "b", "\n">>,
        <<"\n", "a", "0xFF", "\r", " ">>}

InitUDP ==
  /\ Constructed
  /\ Detached
  /\ config \in [max_memory_logs : {2}, write_to_file : {TRUE},
                 keep_days : {3}, udp_whitelist : Whitelists, websocket_token : {""}]

DatagramReceived ==
  /\ Len(received) < MaxDatagrams
  /\ \E data \in Datagrams, host \in Hosts : datagram_received(data, host)

RunTask == run_task

NextUDP ==
  \/ DatagramReceived
  \/ RunTask

SpecUDP == InitUDP /\ [][NextUDP]_vars

\* The intake of messages that are empty once their trailing newlines are
\* stripped, beside one that is not.
IntakeMessages == {<<"a", "\n">>, <<"\n">>, <<>>}

InitIntake ==
  /\ Constructed
  /\ Detached
  /\ config = [max_memory_logs |-> 2, write_to_file |-> TRUE, keep_days |-> 3,
               udp_whitelist |-> <<>>, websocket_token |-> ""]

IntakeAddEntry ==
  /\ Len(history) < MaxEntries
  /\ \E message \in IntakeMessages : add_entry(message) /\ UNCHANGED ready

NextIntake ==
  \/ IntakeAddEntry
  \/ Subscribe
  \/ QueueGet
  \/ Tick

SpecIntake == InitIntake /\ [][NextIntake]_vars


\* The storage with a notifier attached, as lifespan builds it: enabled or
\* not, the Bot API answering or failing, and the notifier's queue empty,
\* one short of full, or full of texts the worker has not posted yet.
EarlierText == [stamp |-> <<27, 2>>, message |-> <<"z">>]
Backlogs == {0, TelegramQueueSize - 1, TelegramQueueSize}

InitForward ==
  /\ Constructed
  /\ config = [max_memory_logs |-> 2, write_to_file |-> TRUE, keep_days |-> 3,
               udp_whitelist |-> <<>>, websocket_token |-> ""]
  /\ shutdown = NotStarted
  /\ \E enabled \in BOOLEAN, api \in {"ok", "failing"}, backlog \in Backlogs :
        /\ ~enabled => backlog = 0 /\ api = "ok"
        /\ notifier = [TelegramNotifier(enabled, api) EXCEPT
                         !.queue.items = [i \in 1..backlog |-> EarlierText]]

Worker ==
  /\ Len(notifier.posts) < MaxPosts
  /\ _worker

NextForward ==
  \/ AddEntry
  \/ Subscribe
  \/ QueueGet
  \/ Worker
  \/ Tick

SpecForward == InitForward /\ [][NextForward]_vars

\* The listener and the storage on a disk that fails and recovers.
FailureDatagrams == {<<"a">>, <<"a", "\n", "b">>}

InitFailure ==
  /\ Constructed
  /\ Detached
  /\ config = [max_memory_logs |-> 2, write_to_file |-> TRUE, keep_days |-> 3,
               udp_whitelist |-> <<>>, websocket_token |-> ""]

\* mkdir, open, write and flush start to raise OSError, and stop.
DiskFails ==
  /\ disk = "ok"
  /\ disk' = "failing"
  /\ UNCHANGED <<now, config, buffer, listeners, queues, writer, ready, last_call,
                 history, cleared, subs, received, lock, forwarded, tasks, sessions,
                 shutdown>>

DiskRecovers ==
  /\ disk = "failing"
  /\ disk' = "ok"
  /\ UNCHANGED <<now, config, buffer, listeners, queues, writer, ready, last_call,
                 history, cleared, subs, received, lock, forwarded, tasks, sessions,
                 shutdown>>

FailureDatagram ==
  /\ Len(received) < MaxDatagrams
  /\ \E data \in FailureDatagrams : datagram_received(data, "10.0.0.1")

NextFailure ==
  \/ FailureDatagram
  \/ RunTask
  \/ DiskFails
  \/ DiskRecovers
  \/ Subscribe
  \/ QueueGet
  \/ GetRecent

SpecFailure == InitFailure /\ [][NextFailure]_vars

\* The live stream: clients connect with or without the token, stay or go,
\* while entries arrive or do not.
Clients == {1, 2}                       \* the sessions, in order
Tokens == {"", "s3cret", "guess"}       \* ?token= of the request; "" for none

InitSession ==
  /\ Constructed
  /\ Detached
  /\ config \in [max_memory_logs : {1}, write_to_file : {FALSE}, keep_days : {3},
                 udp_whitelist : {<<>>}, websocket_token : {"", "s3cret"}]

WsConnect ==
  /\ Len(sessions) + 1 \in Clients
  /\ \E token \in Tokens : websocket_logs(token)
WsSubscribe == \E s \in DOMAIN sessions : ws_subscribe(s)
WsStream == \E s \in DOMAIN sessions : ws_stream(s)
WsDisconnect == \E s \in DOMAIN sessions : ws_disconnect(s)

NextSession ==
  \/ AddEntry
  \/ WsConnect
  \/ WsSubscribe
  \/ WsStream
  \/ WsDisconnect

\* The event loop runs a handler whenever it can go on: after accept(), and
\* when its queue holds an entry.  Nothing makes a datagram arrive.
SpecSession ==
  /\ InitSession
  /\ [][NextSession]_vars
  /\ \A s \in Clients : WF_vars(s \in DOMAIN sessions /\ ws_subscribe(s))
  /\ \A s \in Clients : WF_vars(s \in DOMAIN sessions /\ ws_stream(s))

\* The application from start-up to the end of lifespan: datagrams arrive
\* while the transport is open, the loop runs the tasks until it is stopped.
InitShutdown ==
  /\ Constructed
  /\ config \in [max_memory_logs : {2}, write_to_file : {TRUE}, keep_days : {0, 3},
                 udp_whitelist : {<<>>}, websocket_token : {""}]
  /\ \E enabled \in BOOLEAN : notifier = TelegramNotifier(enabled, "ok")
  /\ shutdown = Serving(config.keep_days)

ServedDatagram ==
  /\ shutdown.transport = "open"
  /\ Len(received) < MaxDatagrams
  /\ \E data \in FailureDatagrams : datagram_received(data, "10.0.0.1")

LoopRunTask ==
  /\ shutdown.pc # "stopped"
  /\ run_task

Lifespan == lifespan_finally

NextShutdown ==
  \/ ServedDatagram
  \/ LoopRunTask
  \/ Worker
  \/ Lifespan
  \/ Tick

SpecShutdown == InitShutdown /\ [][NextShutdown]_vars

\* Overlapping calls: entries arrive while a viewer takes a snapshot with
\* get_recent, then subscribes, then reads its queue.
InitLock ==
  /\ Constructed
  /\ Detached
  /\ config = [max_memory_logs |-> 2, write_to_file |-> TRUE, keep_days |-> 3,
               udp_whitelist |-> <<>>, websocket_token |-> ""]

Calls(op) == {t \in DOMAIN tasks : tasks[t].op = op}

CallAddEntry ==
  /\ Cardinality(Calls("add_entry")) < MaxEntries
  /\ \E message \in Messages : call_add_entry(message)
AddEntryNotify == \E t \in DOMAIN tasks : add_entry_notify(t)
AddEntryWrite == \E t \in DOMAIN tasks : add_entry_write(t)
CallGetRecent ==
  /\ Calls("get_recent") = {}
  /\ call_get_recent(config.max_memory_logs)
CallSubscribe ==
  /\ Calls("subscribe") = {}
  /\ \E t \in Calls("get_recent") : tasks[t].pc = "done"
  /\ call_subscribe
Wake == \E t \in DOMAIN tasks : wake(t)

NextLock ==
  \/ CallAddEntry
  \/ AddEntryNotify
  \/ AddEntryWrite
  \/ CallGetRecent
  \/ CallSubscribe
  \/ Wake
  \/ QueueGet
  \/ Tick

SpecLock == InitLock /\ [][NextLock]_vars

\* ----------------------------------------------------------------- claims
\* The entries appended since the last clear_buffer (or since construction).
SinceClear == SubSeq(history, cleared + 1, Len(history))

dicts(entries) == [i \in 1..Len(entries) |-> to_dict(entries[i])]
lines(entries) == [i \in 1..Len(entries) |-> line_of(entries[i])]

\* The end of the subscription of a queue, as a length of history.
UntilOf(q) == IF subs[q].until = -1 THEN Len(history) ELSE subs[q].until

\* C1: the ring buffer never holds more than max_memory_logs entries; after n
\* add_entry calls since construction or the last clear_buffer it holds the
\* last min(n, C) of them in arrival order, and get_recent(C) returns them,
\* oldest first.
C1_RingBuffer ==
  LET C == config.max_memory_logs
      n == Len(history) - cleared
      kept == LastN(SinceClear, Min(n, C))
  IN  /\ Len(buffer) <= C
      /\ buffer = kept
      /\ last_call.limit = C => last_call.items = dicts(kept)

C1_Witness ==
  /\ config.max_memory_logs = 2
  /\ cleared = 0 /\ Len(history) = 3
  /\ queues # <<>>
  /\ last_call.limit = 2 /\ Len(last_call.items) = 2

\* C2: in the notify step of add_entry a registered queue that is full keeps
\* its entries and stays registered, and every registered queue that is not
\* full has the new entry appended.
C2_FullSkipped ==
  [][history' # history =>
       \A q \in Range(listeners) :
          /\ q \in Range(listeners')
          /\ full(queues[q]) => queues'[q] = queues[q]
          /\ ~full(queues[q]) =>
               queues'[q].items = Append(queues[q].items, history'[Len(history')])]_vars

C2_Witness ==
  \E q1 \in Range(listeners), q2 \in Range(listeners) :
     /\ subs[q1].missed /\ full(queues[q1])
     /\ history[Len(history)] \notin Range(queues[q1].items)
     /\ history[Len(history)] \in Range(queues[q2].items)

\* C3: a queue that was never full at a notify holds, after what its viewer
\* has taken from it, exactly the entries appended between its subscribe and
\* its unsubscribe, each once, in the order of the appends.
C3_FastSubscriber ==
  \A q \in DOMAIN queues :
     ~subs[q].missed =>
        subs[q].taken \o queues[q].items = SubSeq(history, subs[q].since + 1, UntilOf(q))

C3_Witness ==
  \E q \in DOMAIN queues :
     /\ ~subs[q].missed /\ queues[q].maxsize > 0
     /\ subs[q].taken # <<>> /\ queues[q].items # <<>>
     /\ subs[q].until # -1 /\ subs[q].until < Len(history)

\* A registered queue of capacity Q >= 1 whose viewer has taken nothing, after
\* more than Q entries were appended since its subscribe.
Undrained(q) ==
  /\ q \in Range(listeners)
  /\ queues[q].maxsize >= 1
  /\ subs[q].taken = <<>>
  /\ Len(history) - subs[q].since > queues[q].maxsize

\* C4 as claimed: such a queue holds the Q most recently appended entries.
C4_Claimed ==
  \A q \in DOMAIN queues :
     Undrained(q) => queues[q].items = LastN(history, queues[q].maxsize)

\* C4 as amended: such a queue holds exactly Q entries, the first Q appended
\* since its subscribe; the later ones are the ones dropped.
C4_OldestKept ==
  \A q \in DOMAIN queues :
     Undrained(q) =>
        /\ Len(queues[q].items) = queues[q].maxsize
        /\ queues[q].items =
             SubSeq(history, subs[q].since + 1, subs[q].since + queues[q].maxsize)

C4_Witness ==
  \E q \in DOMAIN queues :
     Undrained(q) /\ queues[q].maxsize = 2 /\ subs[q].since = 0 /\ Len(history) = 3

\* The persisted files read in date order.
RECURSIVE read_in_date_order(_)
read_in_date_order(names) ==
  IF names = {} THEN <<>>
  ELSE LET first == CHOOSE n \in names :
                      \A m \in names : toordinal(n.stem) <= toordinal(m.stem)
       IN  files[first] \o read_in_date_order(names \ {first})

\* C5 as claimed: with file persistence enabled the files, read in date order,
\* hold one line per completed add_entry, in the order of the appends.
C5_Claimed ==
  config.write_to_file => read_in_date_order(DOMAIN files) = lines(history)

\* C6: every line is in the file named by the date of its own timestamp, and
\* an entry of day D followed by one of day D+1 leaves two files of one line.
C6_FileOfOwnDate ==
  /\ \A name \in DOMAIN files :
        /\ name.ext = "log"
        /\ \A i \in 1..Len(files[name]) : files[name][i][1].date = name.stem
  /\ ( /\ config.write_to_file
       /\ Len(history) = 2
       /\ history[2].timestamp = history[1].timestamp + 1 )
     => /\ DOMAIN files = {_get_log_file_path(history[1].timestamp),
                           _get_log_file_path(history[2].timestamp)}
        /\ \A i \in 1..2 :
              files[_get_log_file_path(history[i].timestamp)] = <<line_of(history[i])>>

C6_Witness ==
  /\ Cardinality(DOMAIN files) = 2
  /\ \A name \in DOMAIN files : Len(files[name]) = 1
  /\ Len(history) = 2

\* What an add_entry step does with its entry, stated on the step.
Ingested ==
  LET entry == history'[Len(history')]
      path == _get_log_file_path(entry.timestamp)
  IN  /\ config.max_memory_logs > 0 =>
            /\ buffer'[Len(buffer')] = entry
            /\ Len(buffer') = Min(Len(buffer) + 1, config.max_memory_logs)
      /\ \A q \in Range(listeners) :
            ~full(queues[q]) => queues'[q].items = Append(queues[q].items, entry)
      /\ (config.write_to_file /\ file_handle' # NoFile) =>
            /\ file_handle' = path
            /\ files'[path][Len(files'[path])] = line_of(entry)

\* C7: clear_buffer empties the ring buffer and leaves the registry, every
\* queue, the files, the current-file marker and the handle as they were; an
\* entry ingested after a clear is buffered, notified and persisted.
C7_ClearFrame ==
  [][ /\ clear_buffer =>
           /\ buffer' = <<>>
           /\ UNCHANGED <<listeners, queues, files, current_log_file, file_handle>>
      /\ (cleared > 0 /\ history' # history) => Ingested ]_vars

C7_Witness ==
  /\ cleared > 0 /\ Len(history) > cleared
  /\ Len(buffer) = 1
  /\ \E q \in Range(listeners) : Len(queues[q].items) = 2
  /\ \E name \in DOMAIN files : Len(files[name]) = 2

\* C8 as claimed: get_recent(limit), limit >= 0, returns at most limit
\* entries, the min(limit, length) most recently appended, oldest first.
C8_Claimed ==
  last_call.limit >= 0 =>
     /\ Len(last_call.items) <= last_call.limit
     /\ last_call.items = dicts(LastN(buffer, last_call.limit))

\* A name of the form <date>.log.
IsDatedLog(name) == name.ext = "log" /\ ParsesAsDate(name.stem)

\* C9 as claimed: with keep_days > 0 one sweep deletes exactly the files whose
\* name is a date before today minus keep_days, keeps a file dated exactly
\* then, keeps every name that is no date, and deletes nothing when
\* keep_days <= 0.
C9_Claimed ==
  last_call.call = "cleanup_files" =>
     DOMAIN files =
       {name \in last_call.listed :
          ~ ( /\ config.keep_days > 0
              /\ IsDatedLog(name)
              /\ toordinal(name.stem) < now - config.keep_days )}

\* C9 as amended: the same of a configuration with file persistence enabled;
\* with it disabled, as with keep_days <= 0, a sweep deletes nothing.
C9_Sweep ==
  last_call.call = "cleanup_files" =>
     DOMAIN files =
       {name \in last_call.listed :
          ~ ( /\ config.write_to_file
              /\ config.keep_days > 0
              /\ IsDatedLog(name)
              /\ toordinal(name.stem) < now - config.keep_days )}

C9_Witness ==
  /\ last_call.call = "cleanup_files"
  /\ config.keep_days = 3 /\ now = StartOrd
  /\ last_call.listed = LeftNames
  /\ DOMAIN files = LeftNames \ {[stem |-> <<2024, 2, 24>>, ext |-> "log"]}

\* The non-empty lines of a text: its longest runs of characters that are no
\* line boundaries, in the order in which they start.
RECURSIVE RunsFrom(_, _)
RunsFrom(text, i) ==
  IF i > Len(text) THEN <<>>
  ELSE IF text[i] \in LineBreaks THEN RunsFrom(text, i + 1)
  ELSE LET stop == CHOOSE j \in i..Len(text) :
                     /\ \A k \in i..j : text[k] \notin LineBreaks
                     /\ j = Len(text) \/ text[j + 1] \in LineBreaks
       IN  <<SubSeq(text, i, stop)>> \o RunsFrom(text, stop + 1)

Allowed(host) == config.udp_whitelist = <<>> \/ host \in Range(config.udp_whitelist)

\* The lines the datagrams received must bring into the buffer, in order.
RECURSIVE Expected(_)
Expected(datagrams) ==
  IF datagrams = <<>> THEN <<>>
  ELSE (IF Allowed(Head(datagrams).host)
        THEN RunsFrom(decode(Head(datagrams).data), 1) ELSE <<>>)
       \o Expected(Tail(datagrams))

\* C10: a datagram of a sender outside a non-empty allow-list adds no entry;
\* any other adds its non-empty lines, one entry per line, in the order of the
\* lines: the entries appended and the tasks still to run are, together, the
\* non-empty lines of the accepted datagrams in order.
C10_Datagram ==
  [i \in 1..Len(history) |-> history[i].message] \o ready = Expected(received)

C10_Witness ==
  /\ config.udp_whitelist # <<>>
  /\ Len(received) = 2
  /\ received[1].host = "10.0.0.2" /\ received[1].data # <<>>
  /\ received[2] = [data |-> <<"a", "\n", "b", "\n", "\n", "c">>, host |-> "10.0.0.1"]
  /\ ready = <<>>
  /\ [i \in 1..Len(history) |-> history[i].message] = <<<<"a">>, <<"b">>, <<"c">>>>

\* C11: add_entry with a message that is empty once its trailing newlines are
\* stripped ("" or "\n") adds nothing: the buffer, the subscriber queues and
\* the log files are left as they were.
C11_Claimed ==
  [][\A message \in IntakeMessages :
        (rstrip(message) = <<>> /\ add_entry(message)) =>
           UNCHANGED <<buffer, queues, files>>]_vars

\* C19: a subscriber queue never holds more entries than the capacity Q >= 0
\* that subscribe was given.
C19_Claimed ==
  \A q \in DOMAIN queues : Len(queues[q].items) <= queues[q].maxsize

\* C20: between the calls (the lock is free) the marker names a path exactly
\* when a handle is open, and the handle is open on exactly that path.
C20_Claimed ==
  /\ (current_log_file # NoFile) <=> (file_handle # NoFile)
  /\ file_handle # NoFile => file_handle = current_log_file

\* The entries of history that belong in the file of a path, in order.
RECURSIVE OfPath(_, _)
OfPath(entries, path) ==
  IF entries = <<>> THEN <<>>
  ELSE (IF _get_log_file_path(Head(entries).timestamp) = path
        THEN <<Head(entries)>> ELSE <<>>) \o OfPath(Tail(entries), path)

\* C13: whatever the notifier's state (not enabled, queue full, posts
\* failing), add_entry returns the entry it made and leaves the buffer, the
\* subscriber queues and the files as the entries alone determine them; it
\* is never kept waiting by a full notifier queue, which keeps its texts and
\* drops the new one; and a text is handed over only for an entry that is
\* already in the buffer and in its file, with the lock free again.
C13_Forwarding ==
  /\ [](/\ buffer = LastN(history, config.max_memory_logs)
        /\ returned = IF history = <<>> THEN NoReturn
                      ELSE [entry |-> history[Len(history)], raised |-> ""]
        /\ \A i \in 1..Len(history) : _get_log_file_path(history[i].timestamp) \in DOMAIN files
        /\ \A path \in DOMAIN files : files[path] = lines(OfPath(history, path))
        /\ \A q \in DOMAIN queues :
              ~subs[q].missed =>
                 subs[q].taken \o queues[q].items
                    = SubSeq(history, subs[q].since + 1, Len(history))
        /\ free(lock)
        /\ Len(notifier.queue.items) <= TelegramQueueSize
        /\ Range(notifier.queue.items) \cup {p.text : p \in Range(notifier.posts)}
              \subseteq {EarlierText} \cup {telegram_message(history[i]) : i \in 1..Len(history)}
        /\ (Len(history) < MaxEntries) => ENABLED AddEntry)
  /\ [][history' # history =>
          notifier'.queue.items =
             IF ~notifier.enabled \/ full(notifier.queue) THEN notifier.queue.items
             ELSE Append(notifier.queue.items, telegram_message(history'[Len(history')]))]_vars

C13_Witness ==
  /\ notifier.enabled /\ notifier.api = "failing"
  /\ full(notifier.queue)
  /\ Range(notifier.queue.items) = {EarlierText}
  /\ Len(history) = 2
  /\ returned.entry = history[2]
  /\ Len(buffer) = 2
  /\ \E q \in DOMAIN queues : queues[q].items # <<>>

\* C18: an OSError of the write or of the rotation inside add_entry leaves
\* the lock free and stays in the task of that add_entry: every datagram
\* received has its lines made tasks, every task run has its entry in the
\* buffer and in the queues of the subscribers, failed or not, and the calls
\* of the storage can still be made.
C18_NonFatal ==
  /\ free(lock)
  /\ [i \in 1..Len(history) |-> history[i].message] \o ready = Expected(received)
  /\ buffer = LastN(history, config.max_memory_logs)
  /\ \A q \in DOMAIN queues :
        ~subs[q].missed =>
           subs[q].taken \o queues[q].items = SubSeq(history, subs[q].since + 1, UntilOf(q))
  /\ returned.raised \in {"", "OSError"}
  /\ returned.raised = "" /\ history # <<>> => returned.entry = history[Len(history)]
  /\ ENABLED GetRecent
  /\ ready # <<>> => ENABLED RunTask
  /\ Len(queues) + 1 \in Viewers => ENABLED Subscribe

C18_Witness ==
  /\ Len(history) = 3
  /\ \E path \in DOMAIN files : Len(files[path]) = 2
  /\ current_log_file = file_handle
  /\ disk = "ok"
  /\ returned = [entry |-> history[3], raised |-> ""]
  /\ Len(buffer) = 2
  /\ \E q \in DOMAIN queues : subs[q].taken \o queues[q].items = history

\* Session s was accepted and subscribed, and its client has gone.
Left(s) ==
  IF s \in DOMAIN sessions
  THEN sessions[s].state \in {"streaming", "ended"} /\ sessions[s].client = "gone"
  ELSE FALSE

\* The queue of session s is not, or no longer, in the registry.
Released(s) ==
  IF s \in DOMAIN sessions THEN sessions[s].queue \notin Range(listeners) ELSE TRUE

\* C12: the queue of a session that was accepted and subscribed and whose
\* client has gone is in time taken from the registry, whether or not another
\* entry arrives; and a session refused for its token never has a queue.
C12_Claimed ==
  /\ \A s \in Clients : Left(s) ~> Released(s)
  /\ [](/\ \A s \in DOMAIN sessions : sessions[s].state = "refused" => sessions[s].queue = 0
        /\ Len(queues) = Cardinality({s \in DOMAIN sessions : sessions[s].queue # 0}))

\* The place the claim gives each part in the order of the shutdown.
Rank(part) ==
  CASE part \in {"sweeper", "forwarder"} -> 1
    [] part = "listener" -> 2
    [] part = "client" -> 3
    [] part = "file" -> 4

\* C17: at shutdown the sweeper and the forwarder worker are cancelled
\* first, then the listener is closed, then the forwarding client, then the
\* file handle; and once the file handle has been closed no add_entry
\* touches the file writer.
C17_Claimed ==
  /\ [](\A i, j \in DOMAIN shutdown.log :
           i < j => Rank(shutdown.log[i]) <= Rank(shutdown.log[j]))
  /\ [][("file" \in Range(shutdown.log)) => UNCHANGED writer]_vars

\* Where an entry stands in the order of the appends.
Position(entry) == CHOOSE i \in DOMAIN history : history[i] = entry

\* What the viewer has seen: its snapshot, then what its queue has brought.
Snapshot == UNION {Range(tasks[t].result) : t \in Calls("get_recent")}
Stream == UNION {Range(subs[q].taken) \cup Range(queues[q].items) : q \in DOMAIN queues}
Seen ==
  LET snap == IF Calls("get_recent") = {} THEN <<>>
              ELSE tasks[CHOOSE t \in Calls("get_recent") : TRUE].result
      brought == IF queues = <<>> THEN <<>> ELSE subs[1].taken \o queues[1].items
  IN  snap \o brought

\* C14: for a viewer that calls get_recent, then subscribe, then reads its
\* queue, no entry is both in the snapshot and in the stream, and the entries
\* it sees come in the order in which they were appended, however its calls
\* and the add_entry calls overlap.
C14_SnapshotThenStream ==
  /\ Snapshot \cap Stream = {}
  /\ \A i, j \in DOMAIN Seen : i < j => Position(Seen[i]) < Position(Seen[j])

C14_Witness ==
  /\ Snapshot # {}
  /\ queues # <<>> /\ subs[1].taken # <<>>
  /\ Len(history) = 3 /\ Len(Seen) = 2
  /\ \E t \in Calls("get_recent") : tasks[t].waited
  /\ \E t \in Calls("subscribe") : tasks[t].waited

C16_OneRotation ==
  /\ [](\A i, j \in DOMAIN history : i < j => history[i].timestamp <= history[j].timestamp)
  /\ [][current_log_file # NoFile =>
          toordinal(current_log_file'.stem) >= toordinal(current_log_file.stem)]_vars

C16_Witness ==
  /\ Cardinality(DOMAIN files) = 2
  /\ Len(history) = 3
  /\ \A t \in DOMAIN tasks : tasks[t].pc = "done"
  /\ \E t, u \in Calls("add_entry") :
        /\ tasks[t].waited /\ tasks[u].waited
        /\ tasks[t].entry.timestamp < tasks[u].entry.timestamp
  /\ now = LastOrd

=============================================================================
